---- MODULE Spec2Model ----
(***************************************************************************)
(* NetBots: bots steered by small feed-forward networks learn to reach     *)
(* food; the networks are bred by a generational evolution algorithm.      *)
(*                                                                         *)
(* NeuralNet.py : NeuralNetwork (construction, feed_forward, encoded,      *)
(*                decode) and the activation functions.                    *)
(* NetBots.py   : Entity/Bot/Food, BotWorld (replace_food, update),        *)
(*                EvolutionAlgorithm (__init__, train), BotsWindow.        *)
(*                                                                         *)
(* Python floats are modelled as fixed-point integers: a float v is the    *)
(* integer nearest to v * Scale.  Python objects that the program shares   *)
(* by reference (Bot, NeuralNetwork) live in heaps indexed by an object    *)
(* identity; a Bot's identity is its id, which BOT_COUNTER makes unique.   *)
(***************************************************************************)
EXTENDS Integers, Sequences, FiniteSets, TLC

VARIABLES
    bench,          \* a pair of networks driven through encoded/decode/feed_forward
    pc,             \* position of the main program (module level code and train)
    population,     \* the value of NetBots.POPULATION in this run
    BOT_COUNTER,    \* NetBots.BOT_COUNTER
    FOOD_COUNTER,   \* NetBots.FOOD_COUNTER
    botObj,         \* heap of the reachable Bot objects, by id
    netObj,         \* heap of the reachable NeuralNetwork objects, by identity
    nextNet,        \* identity given to the next NeuralNetwork constructed
    evo,            \* the EvolutionAlgorithm object
    world,          \* the current BotWorld object
    loop,           \* local variables of train and of BotWorld.update
    hist            \* history of the run, for stating properties

vars == <<bench, pc, population, BOT_COUNTER, FOOD_COUNTER, botObj, netObj, nextNet,
          evo, world, loop, hist>>

simVars == <<pc, population, BOT_COUNTER, FOOD_COUNTER, botObj, netObj, nextNet,
             evo, world, loop, hist>>

-----------------------------------------------------------------------------
(* Bounds of the model *)

\* number of distinct outcomes of the random weight initialisation
MaxSeed == 2
\* largest input count, hidden layer count, hidden layer size and output
\* count of the topologies the network bench constructs
MaxInputs == 2
MaxHiddenLayers == 2
MaxLayerSize == 2
MaxOutputs == 2

-----------------------------------------------------------------------------
(* Fixed-point arithmetic *)

\* the fixed-point unit: the integer that stands for the float 1.0
Scale == 10

\* a / b rounded to the nearest integer (b > 0)
Round(a, b) == (2 * a + b) \div (2 * b)

Abs(a) == IF a < 0 THEN -a ELSE a

RECURSIVE SumSeq(_)
SumSeq(s) == IF s = <<>> THEN 0 ELSE Head(s) + SumSeq(Tail(s))

\* s[a+1..], Python's s[a:]
Drop(s, a) == IF a >= Len(s) THEN <<>> ELSE SubSeq(s, a + 1, Len(s))
\* s[1..a], Python's s[:a]
Take(s, a) == IF a >= Len(s) THEN s ELSE SubSeq(s, 1, a)

RECURSIVE Flatten(_)
\* the concatenation of a sequence of sequences
Flatten(ss) == IF ss = <<>> THEN <<>> ELSE Head(ss) \o Flatten(Tail(ss))

-----------------------------------------------------------------------------
(* NeuralNet.py: activation functions *)

\* Scale * tanh(k / Scale) for k = 1 .. 18, rounded; from k = 19 on it is Scale
TanhTable == <<1, 2, 3, 4, 5, 5, 6, 7, 7, 8, 8, 8, 9, 9, 9, 9, 9, 9>>

tanh(x) ==
    LET m == Abs(x)
        t == IF m = 0 THEN 0 ELSE IF m > Len(TanhTable) THEN Scale ELSE TanhTable[m]
    IN  IF x < 0 THEN -t ELSE t

\* 1 / (1 + exp(-x)) = (1 + tanh(x / 2)) / 2
logistic(x) == Round(Scale + tanh(Round(x, 2)), 2)

relu(x) == IF x > 0 THEN x ELSE 0

leakyrelu(x) == IF x > 0 THEN x ELSE -Round(-x, 1000)

relu6(x) == IF x >= 6 * Scale THEN 6 * Scale ELSE IF x > 0 THEN x ELSE 0

leakyrelu6(x) ==
    IF x >= 6 * Scale THEN 6 * Scale ELSE IF x > 0 THEN x ELSE -Round(-x, 1000)

ACTIVATION_FUNCTIONS(af, x) ==
    CASE af = "logistic"   -> logistic(x)
      [] af = "tanh"       -> tanh(x)
      [] af = "relu"       -> relu(x)
      [] af = "leakyrelu"  -> leakyrelu(x)
      [] af = "relu6"      -> relu6(x)
      [] af = "leakyrelu6" -> leakyrelu6(x)

HIDDEN_LAYER_FUNC == "leakyrelu6"
OUTPUT_LAYER_FUNC == "tanh"

-----------------------------------------------------------------------------
(* NeuralNet.py: NeuralNetwork *)

\* the i-th value random.uniform(-1, 1) returns while one network is
\* constructed, for the state of the random source named by seed; the
\* program's networks take the order of their construction as seed
RandomWeight(seed, i) == ((2 * i + 5 * seed) % (2 * Scale + 1)) - Scale

\* the values random.uniform(-1, 1) can return for a mutated weight
MutationValues == {Scale}

RECURSIVE BuildHidden(_, _, _, _)
\* the loop over n_layers: <<hidden_layers, inputs, weights drawn so far>>
BuildHidden(n_layers, inputs, seed, drawn) ==
    IF n_layers = <<>> THEN <<<<>>, inputs, drawn>>
    ELSE LET l == Head(n_layers)
             layer == [j \in 1..l |->
                         [i \in 1..(inputs + 1) |->
                            RandomWeight(seed, drawn + (j - 1) * (inputs + 1) + i)]]
             rest == BuildHidden(Tail(n_layers), l, seed, drawn + l * (inputs + 1))
         IN  <<<<layer>> \o rest[1], rest[2], rest[3]>>

\* NeuralNetwork(n_inputs, n_outputs, n_layers, h_af, o_af)
NeuralNetwork(n_inputs, n_outputs, n_layers, h_af, o_af, seed) ==
    LET h == BuildHidden(n_layers, n_inputs, seed, 0)
        inputs == h[2]
        drawn == h[3]
    IN  [hidden_layers |-> h[1],
         hidden_af |-> h_af,
         output_layer |-> [j \in 1..n_outputs |->
                             [i \in 1..(inputs + 1) |->
                                RandomWeight(seed, drawn + (j - 1) * (inputs + 1) + i)]],
         output_af |-> o_af]

\* sum of weight * input products, the bias weight times -1, then the activation
calculate_neuron(neuron, data, af) ==
    LET n == Len(neuron)
        products == [i \in 1..(n - 1) |-> neuron[i] * data[i]]
    IN  ACTIVATION_FUNCTIONS(af, Round(SumSeq(products), Scale) + neuron[n] * (-1))

RECURSIVE FeedHidden(_, _, _)
\* the loop over hidden_layers: the input of the layer after the last one
FeedHidden(layers, layer_input, af) ==
    IF layers = <<>> THEN layer_input
    ELSE LET layer == Head(layers)
             next_layer_input ==
                 [j \in 1..Len(layer) |-> calculate_neuron(layer[j], layer_input, af)]
         IN  FeedHidden(Tail(layers), next_layer_input, af)

feed_forward(self, data) ==
    LET layer_input == FeedHidden(self.hidden_layers, data, self.hidden_af)
    IN  [j \in 1..Len(self.output_layer) |->
           calculate_neuron(self.output_layer[j], layer_input, self.output_af)]

\* A Python value held in a list returned by encoded(): a float or a list
PyFloat(w) == <<"float", w>>
PyList(l) == <<"list", l>>
IsFloat(v) == v[1] = "float"

\* e = [weight for neuron in self.hidden_layers for weight in neuron]
\*   the outer loop runs over the layers, so each "weight" is a whole neuron
\* e += [weight for neuron in self.output_layer for weight in neuron]
encoded(self) ==
    LET hidden == Flatten(self.hidden_layers)
        output == Flatten(self.output_layer)
    IN  [i \in 1..Len(hidden) |-> PyList(hidden[i])]
        \o [i \in 1..Len(output) |-> PyFloat(output[i])]

\* decode(l): each loop binds the local name neuron to a slice of weights and
\* shortens the local weights; no element of hidden_layers or output_layer
\* is assigned, so the stored weights are what they were
decode(self, l) ==
    [hidden_layers |-> [a \in 1..Len(self.hidden_layers) |->
                          [j \in 1..Len(self.hidden_layers[a]) |->
                             self.hidden_layers[a][j]]],
     hidden_af |-> self.hidden_af,
     output_layer |-> [j \in 1..Len(self.output_layer) |-> self.output_layer[j]],
     output_af |-> self.output_af]

\* the stored weights in the order of section 3 of the specification:
\* hidden layers, their neurons, their weights, then the output layer
StoredWeights(self) ==
    Flatten(Flatten(self.hidden_layers)) \o Flatten(self.output_layer)

RECURSIVE LayerWeightCount(_, _)
\* sum over the hidden neurons of (inputs to that layer + 1), and the
\* input count of the output layer
LayerWeightCount(n_layers, inputs) ==
    IF n_layers = <<>> THEN <<0, inputs>>
    ELSE LET rest == LayerWeightCount(Tail(n_layers), Head(n_layers))
         IN  <<Head(n_layers) * (inputs + 1) + rest[1], rest[2]>>

\* total weight count of a topology
WeightCount(n_inputs, n_outputs, n_layers) ==
    LET h == LayerWeightCount(n_layers, n_inputs)
    IN  h[1] + n_outputs * (h[2] + 1)

-----------------------------------------------------------------------------
(* NetBots.py: configuration *)

WIDTH == 800
HEIGHT == 600
BOT_SIZE == 8
FOOD_SIZE == 6

\* Python's round(n / 2) for an integer n: halves go to the even neighbour
RoundHalf(n) ==
    LET q == n \div 2
    IN  IF n % 2 = 0 THEN q ELSE IF q % 2 = 0 THEN q ELSE q + 1

BOT_SIZE_HALF == RoundHalf(BOT_SIZE)
FOOD_SIZE_HALF == RoundHalf(FOOD_SIZE)

\* how many generations of bots to evolve (30 in the source)
TRAINING_EPOCH == 2
\* how many frames to run the simulation for each generation (1500 in the source)
EPOCH_LENGTH == 1
\* how many bots are in each generation (30 in the source)
POPULATION == 2
\* how many active food pickups are available at a time (10 in the source)
FOOD_SUPPLY == 2
\* frames the window's timer runs in the model (unbounded in the source)
MaxFrames == 2

MIN_DISTANCE_TO_CAPTURE == BOT_SIZE_HALF + FOOD_SIZE_HALF
NETWORK_INPUTS == 4
NETWORK_OUTPUTS == 2
\* neurons of the one hidden layer (6 in the source)
HiddenNeurons == 1
NETWORK_LAYERS == <<HiddenNeurons>>
NETWORK_HIDDEN_LAYER_AF == "leakyrelu6"
NETWORK_OUTPUT_LAYER_AF == "tanh"

\* the value of a name bound to None
None == -1

\* outcomes of Entity.__init__'s two random.randint calls, in pixels:
\* samples of [100, WIDTH - 100] x [100, HEIGHT - 100] in which a Food is
\* made at the distances 4 and MIN_DISTANCE_TO_CAPTURE of a new Bot, and out
\* of the reach of any bot
BotPositions == {<<100, 100>>}
FoodPositions ==
    {<<100 + 4, 100>>, <<100 + MIN_DISTANCE_TO_CAPTURE, 100>>,
     <<WIDTH - 100, HEIGHT - 100>>}

-----------------------------------------------------------------------------
(* NetBots.py: distance, Entity, Bot, Food *)

RECURSIVE SqrtFrom(_, _)
\* Newton's iteration from r down to the largest integer whose square is <= s
SqrtFrom(s, r) ==
    LET next == (r + s \div r) \div 2
    IN  IF next >= r THEN r ELSE SqrtFrom(s, next)

\* math.sqrt, rounded to the nearest fixed-point value
sqrt(s) ==
    LET r == IF s < 2 THEN s ELSE SqrtFrom(s, s)
    IN  IF s - r * r <= r THEN r ELSE r + 1

\* ((x2 - x1) ** 2) + ((y2 - y1) ** 2), the argument of math.sqrt in distance
SquaredDistance(x1, y1, x2, y2) == (x2 - x1) * (x2 - x1) + (y2 - y1) * (y2 - y1)

distance(x1, y1, x2, y2) == sqrt(SquaredDistance(x1, y1, x2, y2))

\* distance(..) < limit for a limit given in pixels.  math.sqrt is monotone,
\* so the comparison is made on the squares, where the fixed-point values
\* are exact
DistanceBelow(x1, y1, x2, y2, limit) ==
    SquaredDistance(x1, y1, x2, y2) < (limit * Scale) * (limit * Scale)

\* a Bot that starts with a capture already counted
Bot_ScoreOne(n, p) ==
    [x |-> p[1] * Scale, y |-> p[2] * Scale, nn |-> n, score |-> 1,
     target |-> None, dx |-> 0, dy |-> 0]

\* Bot(n): Entity.__init__ at position p, then the Bot fields
Bot(n, p) ==
    [x |-> p[1] * Scale, y |-> p[2] * Scale, nn |-> n, score |-> 0,
     target |-> None, dx |-> 0, dy |-> 0]

\* a Bot.update that also counts a capture
Bot_update_Scoring(self, net, food) ==
    LET v == distance(food.x, food.y, self.x, self.y)
        x1 == Round((self.x - food.x) * Scale, v)
        y1 == Round((self.y - food.y) * Scale, v)
        x2 == Round(self.x, WIDTH)
        y2 == Round(self.y, HEIGHT)
        out == feed_forward(net, <<x1, y1, x2, y2>>)
    IN  [self EXCEPT !.dx = out[1], !.dy = out[2],
                     !.x = self.x + out[1], !.y = self.y + out[2],
                     !.score = self.score + 1]

\* Bot.update(food): the new values of the fields x, y, dx, dy
Bot_update(self, net, food) ==
    LET v == distance(food.x, food.y, self.x, self.y)
        x1 == Round((self.x - food.x) * Scale, v)
        y1 == Round((self.y - food.y) * Scale, v)
        x2 == Round(self.x, WIDTH)
        y2 == Round(self.y, HEIGHT)
        out == feed_forward(net, <<x1, y1, x2, y2>>)
    IN  [self EXCEPT !.dx = out[1], !.dy = out[2],
                     !.x = self.x + out[1], !.y = self.y + out[2]]

\* Food(): Entity.__init__ at position p, id from FOOD_COUNTER
Food(counter, p) == [id |-> counter, x |-> p[1] * Scale, y |-> p[2] * Scale]

-----------------------------------------------------------------------------
(* NetBots.py: BotWorld *)

RECURSIVE MakeFood(_, _)
\* the loop of BotWorld.__init__: one Food per position of ps
MakeFood(counter, ps) ==
    IF ps = <<>> THEN <<>>
    ELSE <<Food(counter, Head(ps))>> \o MakeFood(counter + 1, Tail(ps))

\* BotWorld(bots) with the food at the positions ps
BotWorld(bots, counter, ps) ==
    [made |-> TRUE, bots |-> bots, food |-> MakeFood(counter, ps)]

\* a pop that removes the oldest food instead of the food f
PopFood_First(food, f) == Tail(food)

\* the dict self.food without the key f, in insertion order
RECURSIVE PopFood(_, _)
PopFood(food, f) ==
    IF food = <<>> THEN <<>>
    ELSE IF Head(food).id = f THEN Tail(food)
    ELSE <<Head(food)>> \o PopFood(Tail(food), f)

\* replace_food that forgets to pop the captured food
replace_food_KeepsCaptured(food, f, counter, p) == Append(food, Food(counter, p))

\* replace_food(f): a new Food is added under its own id, then f is popped
replace_food(food, f, counter, p) == PopFood(Append(food, Food(counter, p)), f)

RECURSIVE ScanFood_LastMinimum(_, _, _, _, _)
\* a scan that lets a later food at the same distance replace the target
ScanFood_LastMinimum(food, bx, by, mindist, best_target) ==
    IF food = <<>> THEN best_target
    ELSE LET f == Head(food)
             dist == SquaredDistance(f.x, f.y, bx, by)
         IN  IF mindist = None \/ dist <= mindist
             THEN ScanFood_LastMinimum(Tail(food), bx, by, dist, f.id)
             ELSE ScanFood_LastMinimum(Tail(food), bx, by, mindist, best_target)

RECURSIVE ScanFood(_, _, _, _, _)
\* the loop over self.food in update: mindist (as a square) and best_target
ScanFood(food, bx, by, mindist, best_target) ==
    IF food = <<>> THEN best_target
    ELSE LET f == Head(food)
             dist == SquaredDistance(f.x, f.y, bx, by)
         IN  IF mindist = None \/ dist < mindist
             THEN ScanFood(Tail(food), bx, by, dist, f.id)
             ELSE ScanFood(Tail(food), bx, by, mindist, best_target)

\* self.food[id]
FoodAt(food, id) == CHOOSE f \in {food[i] : i \in 1..Len(food)} : f.id = id

\* a capture test that also captures at the threshold
CanCapture_AtThreshold(f, bot) ==
    SquaredDistance(f.x, f.y, bot.x, bot.y)
        <= (MIN_DISTANCE_TO_CAPTURE * Scale) * (MIN_DISTANCE_TO_CAPTURE * Scale)

\* a capture test with a threshold 4 pixels lower
CanCapture_Closer(f, bot) ==
    DistanceBelow(f.x, f.y, bot.x, bot.y, MIN_DISTANCE_TO_CAPTURE - 4)

\* the test of update's if statement
CanCapture(f, bot) == DistanceBelow(f.x, f.y, bot.x, bot.y, MIN_DISTANCE_TO_CAPTURE)

-----------------------------------------------------------------------------
(* Helpers for dicts, held as the sequence of their keys in insertion order *)

Range(s) == {s[i] : i \in 1..Len(s)}

\* d[key] = ..: a new key goes to the end, a key already held keeps its place
DictPut(d, key) == IF key \in Range(d) THEN d ELSE Append(d, key)

\* the number of entries of s equal to e
Count(s, e) == Cardinality({i \in 1..Len(s) : s[i] = e})

\* the sequence of n copies of e, [e] * n
Repeat(e, n) == [i \in 1..n |-> e]

\* a counter that is read but not incremented
NextCounter_Stuck(counter) == counter

\* the counter after "id = str(COUNTER); COUNTER += 1"
NextCounter(counter) == counter + 1

-----------------------------------------------------------------------------
(* NetBots.py: EvolutionAlgorithm *)

\* the network of NetBots' configuration, its random weights given by seed
ConfiguredNetwork(seed) ==
    NeuralNetwork(NETWORK_INPUTS, NETWORK_OUTPUTS, NETWORK_LAYERS,
                  NETWORK_HIDDEN_LAYER_AF, NETWORK_OUTPUT_LAYER_AF, seed)

\* the identity of the network made once, when "def __init__(self, n = ...)"
\* of Bot is executed: every Bot() constructed without argument holds it
DefaultNetwork == 0

\* a roulette wheel that gives a bot one entry per capture only
PoolWeight_ScoreOnly(score) == score

\* the number of entries a bot gets on the roulette wheel
PoolWeight(score) == score + 1

RECURSIVE BuildRoulette(_, _, _)
\* the loop over self.bots after the simulation; acc holds roulette,
\* avg_score, high_score and elite_bot
BuildRoulette(bots, heap, acc) ==
    IF bots = <<>> THEN acc
    ELSE LET bot == Head(bots)
             score == heap[bot].score
             better == score > acc.high_score
         IN  BuildRoulette(Tail(bots), heap,
                 [roulette |-> acc.roulette \o Repeat(bot, PoolWeight(score)),
                  avg_score |-> acc.avg_score + score,
                  high_score |-> IF better THEN score ELSE acc.high_score,
                  elite_bot |-> IF better THEN <<bot>> ELSE acc.elite_bot])

\* a crossover whose second slice starts one gene early
Cross_Overlapping(parent_a_weights, parent_b_weights, crossover, coin) ==
    IF coin = 1
    THEN Take(parent_a_weights, crossover) \o Drop(parent_b_weights, crossover - 1)
    ELSE Take(parent_b_weights, crossover) \o Drop(parent_a_weights, crossover - 1)

\* crossed_weights of train for a crossover point and the coin's outcome
Cross(parent_a_weights, parent_b_weights, crossover, coin) ==
    IF coin = 1
    THEN Take(parent_a_weights, crossover) \o Drop(parent_b_weights, crossover)
    ELSE Take(parent_b_weights, crossover) \o Drop(parent_a_weights, crossover)

\* the values random.randint(1, len(parent_a_weights) - 1) can return
CrossoverPoints(parent_a_weights) == 1..(Len(parent_a_weights) - 1)

\* a redraw loop that allows one redraw more
KeepsRedrawing_OneMore(parent_a, parent_b, x, limit) == parent_a = parent_b /\ x <= limit

\* the test of the while loop that redraws parent_b, for POPULATION = limit
KeepsRedrawing(parent_a, parent_b, x, limit) == parent_a = parent_b /\ x < limit

\* the objects still referenced once self.bots is newbots
LiveBots(newbots, elite_bot) == Range(newbots) \cup Range(elite_bot)

-----------------------------------------------------------------------------
(* The program as a state machine *)

NoWorld == [made |-> FALSE, bots |-> <<>>, food |-> <<>>]

NoChild == [parent_a_weights |-> <<>>, parent_b_weights |-> <<>>,
            crossed_weights |-> <<>>, mutated |-> FALSE, bot |-> None]

NoStep == [act |-> "none", bot |-> None, dist2 |-> 0]

IdleBench == [pc |-> "idle"]

\* evo = EvolutionAlgorithm(): POPULATION bots made by Bot(), all holding
\* the default network
SimInit ==
    /\ pc = "train"
    /\ netObj = (DefaultNetwork :> ConfiguredNetwork(DefaultNetwork))
    /\ nextNet = 1
    /\ \E ps \in [0..(population - 1) -> BotPositions] :
         botObj = [i \in 0..(population - 1) |-> Bot(DefaultNetwork, ps[i])]
    /\ BOT_COUNTER = population
    /\ FOOD_COUNTER = 0
    /\ evo = [bots |-> [i \in 1..population |-> i - 1], avg_score |-> 0,
              high_score |-> 0, mutations |-> 0, elite_bot |-> <<>>]
    /\ world = NoWorld
    /\ loop = [gen |-> 0, x |-> 0, n |-> 0, b |-> 1, length |-> 0,
               mode |-> "train", roulette |-> <<>>, newbots |-> <<>>, i |-> 0,
               parent_a |-> None, parent_b |-> None, frames |-> 0]
    /\ hist = [step |-> NoStep, child |-> NoChild, max_seen |-> 0,
               observed |-> FALSE, replaced |-> 0]

Init == bench = IdleBench /\ population = POPULATION /\ SimInit

\* train, lines 191-204: the next generation starts, its BotWorld is made
StartEpoch ==
    /\ pc = "train"
    /\ loop.gen < TRAINING_EPOCH
    /\ \E ps \in [1..FOOD_SUPPLY -> FoodPositions] :
         world' = BotWorld(evo.bots, FOOD_COUNTER, ps)
    /\ FOOD_COUNTER' = FOOD_COUNTER + FOOD_SUPPLY
    /\ evo' = [evo EXCEPT !.avg_score = 0]
    /\ loop' = [loop EXCEPT !.x = loop.gen, !.n = 0, !.b = 1,
                            !.length = EPOCH_LENGTH, !.mode = "train"]
    /\ hist' = [hist EXCEPT !.step = NoStep, !.replaced = 0]
    /\ pc' = IF EPOCH_LENGTH > 0 THEN "update" ELSE "roulette"
    /\ UNCHANGED <<bench, population, BOT_COUNTER, botObj, netObj, nextNet>>

\* the loop variables of update after one bot's turn
AfterTurn ==
    LET last == loop.b >= Len(world.bots)
        n == IF last THEN loop.n + 1 ELSE loop.n
    IN  /\ loop' = [loop EXCEPT !.b = IF last THEN 1 ELSE loop.b + 1, !.n = n]
        /\ pc' = IF n < loop.length THEN "update"
                 ELSE IF loop.mode = "train" THEN "roulette" ELSE "mainloop"

\* BotWorld.update, lines 155-174: one bot's turn in a frame
BotTurn ==
    /\ pc = "update"
    /\ Len(world.bots) > 0
    /\ LET id == world.bots[loop.b]
           bot == botObj[id]
           target == ScanFood(world.food, bot.x, bot.y, None, None)
           f == FoodAt(world.food, target)
           dist2 == SquaredDistance(f.x, f.y, bot.x, bot.y)
       IN  IF CanCapture(f, bot)
           THEN /\ \E p \in FoodPositions :
                     world' = [world EXCEPT
                                 !.food = replace_food(world.food, target, FOOD_COUNTER, p)]
                /\ FOOD_COUNTER' = NextCounter(FOOD_COUNTER)
                /\ botObj' = [botObj EXCEPT ![id] =
                                [bot EXCEPT !.target = target, !.score = bot.score + 1]]
                /\ hist' = [hist EXCEPT
                              !.step = [act |-> "capture", bot |-> id, dist2 |-> dist2],
                              !.replaced = hist.replaced + 1]
           ELSE /\ botObj' = [botObj EXCEPT ![id] =
                                Bot_update([bot EXCEPT !.target = target], netObj[bot.nn], f)]
                /\ hist' = [hist EXCEPT
                              !.step = [act |-> "move", bot |-> id, dist2 |-> dist2]]
                /\ UNCHANGED <<world, FOOD_COUNTER>>
    /\ AfterTurn
    /\ UNCHANGED <<bench, population, BOT_COUNTER, netObj, nextNet, evo>>

\* BotWorld.update, lines 154-175: a frame of a world without bots
IdleFrame ==
    /\ pc = "update"
    /\ Len(world.bots) = 0
    /\ AfterTurn
    /\ UNCHANGED <<bench, population, BOT_COUNTER, FOOD_COUNTER, botObj, netObj,
                   nextNet, evo, world, hist>>

\* train, lines 207-217 without bots: the loop over self.bots does nothing
\* and avg_score / len(self.bots) raises ZeroDivisionError
SelectNobody ==
    /\ pc = "roulette"
    /\ Len(evo.bots) = 0
    /\ loop' = [loop EXCEPT !.roulette = <<>>]
    /\ pc' = "ZeroDivisionError"
    /\ UNCHANGED <<bench, population, BOT_COUNTER, FOOD_COUNTER, botObj, netObj,
                   nextNet, evo, world, hist>>

\* train, lines 207-218: the roulette wheel, the statistics and the elite
Select ==
    /\ pc = "roulette"
    /\ Len(evo.bots) > 0
    /\ LET acc == BuildRoulette(evo.bots, botObj,
                      [roulette |-> <<>>, avg_score |-> evo.avg_score,
                       high_score |-> evo.high_score, elite_bot |-> evo.elite_bot])
           scores == {botObj[evo.bots[i]].score : i \in 1..Len(evo.bots)}
       IN  /\ evo' = [evo EXCEPT
                        !.avg_score = Round(acc.avg_score * 100, Len(evo.bots)),
                        !.high_score = acc.high_score,
                        !.elite_bot = acc.elite_bot]
           /\ loop' = [loop EXCEPT !.roulette = acc.roulette, !.newbots = <<>>, !.i = 0]
           /\ hist' = [hist EXCEPT
                         !.step = NoStep,
                         !.observed = TRUE,
                         !.max_seen = CHOOSE m \in scores \cup {hist.max_seen} :
                                        \A s \in scores \cup {hist.max_seen} : s <= m]
    /\ pc' = "breed"
    /\ UNCHANGED <<bench, population, BOT_COUNTER, FOOD_COUNTER, botObj, netObj, nextNet, world>>

\* train, lines 221-225: both parents are drawn from the roulette wheel
PickParents ==
    /\ pc = "breed"
    /\ \E a \in Range(loop.roulette), b \in Range(loop.roulette) :
         loop' = [loop EXCEPT !.parent_a = a, !.parent_b = b, !.x = 0]
    /\ hist' = [hist EXCEPT !.child = NoChild]
    /\ pc' = "redraw"
    /\ UNCHANGED <<bench, population, BOT_COUNTER, FOOD_COUNTER, botObj, netObj, nextNet,
                   evo, world>>

\* train, lines 227-229: one pass of the loop that redraws parent_b
Redraw ==
    /\ pc = "redraw"
    /\ KeepsRedrawing(loop.parent_a, loop.parent_b, loop.x, population)
    /\ \E b \in Range(loop.roulette) :
         loop' = [loop EXCEPT !.parent_b = b, !.x = loop.x + 1]
    /\ UNCHANGED <<bench, population, pc, BOT_COUNTER, FOOD_COUNTER, botObj, netObj, nextNet,
                   evo, world, hist>>

\* train, lines 230-255: crossover, mutation, the new network and the new bot
\* (parent_a, parent_b and x are not read again before lines 221-225 set them)
Offspring ==
    /\ pc = "redraw"
    /\ ~KeepsRedrawing(loop.parent_a, loop.parent_b, loop.x, population)
    /\ LET parent_a_weights == encoded(netObj[botObj[loop.parent_a].nn])
           parent_b_weights == encoded(netObj[botObj[loop.parent_b].nn])
       IN  \E crossover \in CrossoverPoints(parent_a_weights), coin \in {0, 1},
              mutate \in BOOLEAN, p \in BotPositions :
             LET crossed == Cross(parent_a_weights, parent_b_weights, crossover, coin)
                 n == ConfiguredNetwork(nextNet)
                 id == BOT_COUNTER
             IN  \E at \in 1..Len(crossed), value \in MutationValues :
                   LET crossed_weights ==
                           IF mutate THEN [crossed EXCEPT ![at] = PyFloat(value)]
                           ELSE crossed
                   IN  /\ mutate \/ (at = 1 /\ value = Scale)
                       /\ evo' = [evo EXCEPT !.mutations =
                                    IF mutate THEN evo.mutations + 1 ELSE evo.mutations]
                       /\ netObj' = (nextNet :> decode(n, crossed_weights)) @@ netObj
                       /\ nextNet' = nextNet + 1
                       /\ botObj' = (id :> Bot(nextNet, p)) @@ botObj
                       /\ BOT_COUNTER' = NextCounter(BOT_COUNTER)
                       /\ loop' = [loop EXCEPT !.newbots = DictPut(loop.newbots, id),
                                               !.i = loop.i + 1, !.x = 0,
                                               !.parent_a = None, !.parent_b = None]
                       /\ hist' = [hist EXCEPT !.child =
                                     [parent_a_weights |-> parent_a_weights,
                                      parent_b_weights |-> parent_b_weights,
                                      crossed_weights |-> crossed_weights,
                                      mutated |-> mutate,
                                      bot |-> id]]
    /\ pc' = IF loop.i + 1 < population THEN "breed" ELSE "install"
    /\ UNCHANGED <<bench, population, FOOD_COUNTER, world>>

\* train, line 256: self.bots = newbots; the bots and networks nothing refers
\* to any more are gone
NextGeneration ==
    /\ pc = "install"
    /\ LET live == LiveBots(loop.newbots, evo.elite_bot)
           nets == {botObj[b].nn : b \in live} \cup {DefaultNetwork}
       IN  /\ botObj' = [b \in live |-> botObj[b]]
           /\ netObj' = [n \in nets |-> netObj[n]]
    /\ evo' = [evo EXCEPT !.bots = loop.newbots]
    /\ loop' = [loop EXCEPT !.gen = loop.gen + 1, !.roulette = <<>>, !.newbots = <<>>,
                            !.parent_a = None, !.parent_b = None, !.i = 0]
    /\ hist' = [hist EXCEPT !.child = NoChild]
    /\ world' = NoWorld
    /\ pc' = "train"
    /\ UNCHANGED <<bench, population, BOT_COUNTER, FOOD_COUNTER, nextNet>>

\* train, line 257: the loop over the generations is over, train returns
TrainReturn ==
    /\ pc = "train"
    /\ loop.gen >= TRAINING_EPOCH
    /\ pc' = "trained"
    /\ UNCHANGED <<bench, population, BOT_COUNTER, FOOD_COUNTER, botObj, netObj, nextNet,
                   evo, world, loop, hist>>

\* BotsWindow.__init__, line 273: the window's world holds evo.elite_bot
OpenWindow ==
    /\ pc = "trained"
    /\ \E ps \in [1..FOOD_SUPPLY -> FoodPositions] :
         world' = BotWorld(evo.elite_bot, FOOD_COUNTER, ps)
    /\ FOOD_COUNTER' = FOOD_COUNTER + FOOD_SUPPLY
    /\ loop' = [loop EXCEPT !.mode = "window", !.frames = 0]
    /\ hist' = [hist EXCEPT !.step = NoStep, !.replaced = 0]
    /\ pc' = "mainloop"
    /\ UNCHANGED <<bench, population, BOT_COUNTER, botObj, netObj, nextNet, evo>>

\* BotsWindow.update, lines 311-313: the timer calls world.update()
Frame ==
    /\ pc = "mainloop"
    /\ loop.frames < MaxFrames
    /\ loop' = [loop EXCEPT !.frames = loop.frames + 1, !.n = 0, !.b = 1, !.length = 1]
    /\ pc' = "update"
    /\ UNCHANGED <<bench, population, BOT_COUNTER, FOOD_COUNTER, botObj, netObj, nextNet,
                   evo, world, hist>>

Next ==
    \/ StartEpoch
    \/ BotTurn
    \/ IdleFrame
    \/ Select
    \/ PickParents
    \/ Redraw
    \/ Offspring
    \/ NextGeneration
    \/ TrainReturn
    \/ OpenWindow
    \/ Frame

Spec == Init /\ [][Next]_vars

\* the program for every value of POPULATION from 0 to the bound
AnyPopulationInit ==
    bench = IdleBench /\ population \in 0..POPULATION /\ SimInit

AnyPopulationNext == Next \/ SelectNobody

SpecAnyPopulation == AnyPopulationInit /\ [][AnyPopulationNext]_vars

-----------------------------------------------------------------------------
(* The network bench: two networks of one topology, A encoded, the result  *)
(* decoded into B, both fed the same input                                 *)

RECURSIVE SeqsUpTo(_, _)
\* the sequences over S of length at most n
SeqsUpTo(S, n) ==
    IF n = 0 THEN {<<>>}
    ELSE LET shorter == SeqsUpTo(S, n - 1)
         IN  shorter \cup {Append(q, e) : q \in shorter, e \in S}

\* <<n_inputs, n_outputs, n_layers>>: the small topologies and NetBots' own
Topologies ==
    {<<i, o, l>> : i \in 1..MaxInputs, o \in 1..MaxOutputs,
                   l \in SeqsUpTo(0..MaxLayerSize, MaxHiddenLayers)}
    \cup {<<NETWORK_INPUTS, NETWORK_OUTPUTS, <<6>>>>}

\* the values of one input of feed_forward
InputValues == {0, Scale}

\* the program outside the bench does not run
SimIdle ==
    /\ pc = "idle"
    /\ population = 0
    /\ BOT_COUNTER = 0
    /\ FOOD_COUNTER = 0
    /\ botObj = <<>>
    /\ netObj = <<>>
    /\ nextNet = 0
    /\ evo = [bots |-> <<>>, avg_score |-> 0, high_score |-> 0, mutations |-> 0,
              elite_bot |-> <<>>]
    /\ world = NoWorld
    /\ loop = [gen |-> 0, x |-> 0, n |-> 0, b |-> 1, length |-> 0,
               mode |-> "train", roulette |-> <<>>, newbots |-> <<>>, i |-> 0,
               parent_a |-> None, parent_b |-> None, frames |-> 0]
    /\ hist = [step |-> NoStep, child |-> NoChild, max_seen |-> 0,
               observed |-> FALSE, replaced |-> 0]

BenchInit ==
    \E t \in Topologies, seed_a \in 0..(MaxSeed - 1), seed_b \in 0..(MaxSeed - 1) :
      bench = [pc |-> "made", topology |-> t,
               a |-> NeuralNetwork(t[1], t[2], t[3], HIDDEN_LAYER_FUNC,
                                   OUTPUT_LAYER_FUNC, seed_a),
               b |-> NeuralNetwork(t[1], t[2], t[3], HIDDEN_LAYER_FUNC,
                                   OUTPUT_LAYER_FUNC, seed_b),
               genome |-> <<>>, data |-> <<>>, out_a |-> <<>>, out_b |-> <<>>,
               seed_a |-> seed_a, seed_b |-> seed_b, l |-> <<>>,
               outcome |-> "none"]

\* genome = A.encoded()
BenchEncode ==
    /\ bench.pc = "made"
    /\ bench' = [bench EXCEPT !.pc = "encoded", !.genome = encoded(bench.a)]
    /\ UNCHANGED simVars

\* B.decode(genome)
BenchDecode ==
    /\ bench.pc = "encoded"
    /\ bench' = [bench EXCEPT !.pc = "decoded", !.b = decode(bench.b, bench.genome),
                               !.l = bench.genome, !.outcome = "returned"]
    /\ UNCHANGED simVars

\* lists of a length other than that of genome: one element less, one more,
\* none at all
OtherLengths(genome) ==
    {Take(genome, Len(genome) - 1), genome \o <<PyFloat(0)>>, <<>>} \ {genome}

\* B.decode(l) for a list l whose length is not that of B.encoded().  The
\* slices weights[:n] and weights[n:] are defined for every n, decode compares
\* no length and has no raise statement: the call returns
BenchDecodeOther ==
    /\ bench.pc = "encoded"
    /\ \E l \in OtherLengths(encoded(bench.b)) :
         bench' = [bench EXCEPT !.pc = "decoded_other", !.b = decode(bench.b, l),
                                !.l = l, !.outcome = "returned"]
    /\ UNCHANGED simVars

\* A.feed_forward(data) and B.feed_forward(data)
BenchFeed ==
    /\ bench.pc = "decoded"
    /\ \E data \in [1..bench.topology[1] -> InputValues] :
         bench' = [bench EXCEPT !.pc = "fed", !.data = data,
                                !.out_a = feed_forward(bench.a, data),
                                !.out_b = feed_forward(bench.b, data)]
    /\ UNCHANGED simVars

BenchNext == BenchEncode \/ BenchDecode \/ BenchDecodeOther \/ BenchFeed

NetInit == BenchInit /\ SimIdle

SpecNet == NetInit /\ [][BenchNext]_vars

-----------------------------------------------------------------------------
(* Properties *)

Threshold2 == (MIN_DISTANCE_TO_CAPTURE * Scale) * (MIN_DISTANCE_TO_CAPTURE * Scale)

FoodIds == {world.food[i].id : i \in 1..Len(world.food)}

Scores(bots) == [i \in 1..Len(bots) |-> botObj[bots[i]].score]

\* C1: in every BotWorld, after construction and after every bot's turn, the
\* number of active foods is FOOD_SUPPLY and their ids are pairwise distinct
\* (a capture removes the captured food and adds one food under a new id).
C1_FoodCount ==
    world.made =>
        /\ Len(world.food) = FOOD_SUPPLY
        /\ Cardinality(FoodIds) = FOOD_SUPPLY
        /\ \A id \in FoodIds : id < FOOD_COUNTER

\* a world in which food has been captured and replaced
C1_Witness == world.made /\ hist.replaced > 0 /\ hist.step.act = "capture"

\* C2: after B.decode(A.encoded()) the stored weights of B equal those of A
\* index for index, and B.feed_forward(x) equals A.feed_forward(x).
C2_RoundTrip ==
    /\ bench.pc \in {"decoded", "fed"} => StoredWeights(bench.b) = StoredWeights(bench.a)
    /\ bench.pc = "fed" => bench.out_b = bench.out_a

\* C3: encoded() returns a flat sequence of single weights whose length is
\* the total weight count of the topology (44 for 4 inputs, hidden [6],
\* 2 outputs).
C3_GenomeLength ==
    bench.pc = "encoded" =>
        /\ \A i \in 1..Len(bench.genome) : IsFloat(bench.genome[i])
        /\ Len(bench.genome)
             = WeightCount(bench.topology[1], bench.topology[2], bench.topology[3])
        /\ bench.topology = <<4, 2, <<6>>>> => Len(bench.genome) = 44

\* child agrees with first up to the crossover point k and with second from
\* there on, except at the index m (no index when m = 0)
CrossedAt(child, first, second, k, m) ==
    \A i \in 1..Len(child) :
        i # m => child[i] = (IF i <= k THEN first[i] ELSE second[i])

\* C4: every offspring's genome has the length L of its parents' genomes, and
\* for some crossover index k in 1..L-1 its genes below k are one parent's and
\* its genes from k on the other parent's, except for at most one index, which
\* mutation overwrote.
C4_Crossover ==
    hist.child.bot # None =>
        LET a == hist.child.parent_a_weights
            b == hist.child.parent_b_weights
            c == hist.child.crossed_weights
        IN  /\ Len(c) = Len(a)
            /\ Len(c) = Len(b)
            /\ \E k \in 1..(Len(a) - 1) :
                 \E m \in (IF hist.child.mutated THEN 1..Len(c) ELSE {0}) :
                    CrossedAt(c, a, b, k, m) \/ CrossedAt(c, b, a, k, m)

\* an offspring of two parents with different genomes, with a mutated gene
C4_Witness ==
    /\ hist.child.bot # None
    /\ hist.child.mutated
    /\ hist.child.parent_a_weights # hist.child.parent_b_weights
    /\ hist.child.crossed_weights # hist.child.parent_a_weights
    /\ hist.child.crossed_weights # hist.child.parent_b_weights

\* C5: the initial population and the population installed after every
\* generation hold exactly POPULATION bots with pairwise distinct ids; no
\* offspring overwrites another in newbots.
C5_PopulationSize ==
    /\ Len(evo.bots) = POPULATION
    /\ Cardinality(Range(evo.bots)) = POPULATION
    /\ Range(evo.bots) \subseteq DOMAIN botObj
    /\ pc \in {"breed", "redraw", "install"} => Len(loop.newbots) = loop.i

\* a generation of offspring has been installed
C5_Witness == pc = "train" /\ loop.gen = 1 /\ evo.bots # <<0, 1>>

\* C6: a bot captures its target if and only if its distance to the target is
\* strictly below MIN_DISTANCE_TO_CAPTURE; at exactly that distance it moves.
C6_CaptureBoundary ==
    hist.step.act # "none" =>
        (hist.step.act = "capture" <=> hist.step.dist2 < Threshold2)

\* a bot at exactly the threshold distance of its target has moved
C6_Witness == hist.step.act = "move" /\ hist.step.dist2 = Threshold2

\* the frames of the current world's update that the i-th bot has been through
TurnsTaken(i) == loop.n + (IF pc = "update" /\ i < loop.b THEN 1 ELSE 0)

\* C7: in every generation every bot starts the simulation with score 0 and
\* after t frames has 0 <= score <= t, so at most EPOCH_LENGTH at the end.
C7_ScoreBound ==
    (world.made /\ loop.mode = "train") =>
        \A i \in 1..Len(world.bots) :
            /\ botObj[world.bots[i]].score >= 0
            /\ botObj[world.bots[i]].score <= TurnsTaken(i)
            /\ botObj[world.bots[i]].score <= EPOCH_LENGTH

\* in the second generation a bot has captured food in every frame
C7_Witness ==
    /\ world.made /\ loop.mode = "train" /\ loop.gen = 1 /\ pc = "roulette"
    /\ \E i \in 1..Len(world.bots) : botObj[world.bots[i]].score = EPOCH_LENGTH

\* C8: after train() returns an elite record exists, its score is the maximum
\* score observed over all bots of all generations, and that is high_score.
C8_EliteIsMax ==
    pc = "trained" =>
        /\ Len(evo.elite_bot) = 1
        /\ \A e \in Range(evo.elite_bot) : botObj[e].score = hist.max_seen
        /\ evo.high_score = hist.max_seen

\* C9: after a generation's simulation the roulette wheel holds each bot of
\* the population exactly score + 1 times and nothing else; its length is the
\* population size plus the sum of the scores.
C9_Roulette ==
    pc \in {"breed", "redraw", "install"} =>
        /\ \A b \in Range(evo.bots) :
             Count(loop.roulette, b) = botObj[b].score + 1
        /\ Range(loop.roulette) \subseteq Range(evo.bots)
        /\ Len(loop.roulette) = Len(evo.bots) + SumSeq(Scores(evo.bots))

\* a wheel with a bot that captured nothing and a bot that captured food
C9_Witness ==
    /\ pc = "breed"
    /\ \E b \in Range(evo.bots) :
         botObj[b].score = 0 /\ Count(loop.roulette, b) = 1
    /\ \E b \in Range(evo.bots) :
         botObj[b].score > 0 /\ Count(loop.roulette, b) = botObj[b].score + 1

\* C10: the elite record is an independent copy: it is never the same object
\* as a bot of the population or of a world.
C10_EliteIndependent ==
    \A e \in Range(evo.elite_bot) :
        /\ e \notin Range(evo.bots)
        /\ world.made => e \notin Range(world.bots)


\* the network the bench made as B, before anything was decoded into it
BenchB ==
    NeuralNetwork(bench.topology[1], bench.topology[2], bench.topology[3],
                  HIDDEN_LAYER_FUNC, OUTPUT_LAYER_FUNC, bench.seed_b)

\* C11: decode(l) with a list l whose length differs from that of encoded()
\* ends in the error GenomeLengthMismatch, never returns normally, and leaves
\* every stored weight as it was.
C11_LengthMismatch ==
    bench.pc = "decoded_other" =>
        /\ Len(bench.l) # Len(encoded(BenchB))
        /\ bench.outcome = "GenomeLengthMismatch"
        /\ StoredWeights(bench.b) = StoredWeights(BenchB)

\* C12: with a population of size zero train ends in an error before any
\* generation runs: no BotWorld is constructed and no frame is simulated, at
\* the error or before it.
C12_EmptyPopulation ==
    population = 0 =>
        /\ pc \in {"train", "ZeroDivisionError"}
        /\ ~world.made
        /\ loop.n = 0

\* the network of the bench's topology without its hidden layers, made from
\* the random source that made A
BenchAWithoutHidden ==
    NeuralNetwork(bench.topology[1], bench.topology[2], <<>>,
                  HIDDEN_LAYER_FUNC, OUTPUT_LAYER_FUNC, bench.seed_a)

\* C13: a hidden layer of size 0 passes its input through: with the hidden
\* sizes [0] every output neuron has n_inputs + 1 weights and feed_forward
\* gives what the network without hidden layer gives.
C13_ZeroLayerPassthrough ==
    bench.topology[3] = <<0>> =>
        /\ \A j \in 1..Len(bench.a.output_layer) :
             Len(bench.a.output_layer[j]) = bench.topology[1] + 1
        /\ bench.pc = "fed" => bench.out_a = feed_forward(BenchAWithoutHidden, bench.data)

\* C14: the network of every offspring holds the crossed (and possibly
\* mutated) genome that was decoded into it, gene for gene: each stored
\* weight is a parent's value or the mutated value, none is a value of the
\* new network's random initialisation.
C14_OffspringCarriesGenome ==
    hist.child.bot # None =>
        encoded(netObj[botObj[hist.child.bot].nn]) = hist.child.crossed_weights

\* a step from a state in which update is at a bot is that bot's turn
InTurn == pc = "update" /\ Len(world.bots) > 0

\* the bot whose turn it is
TurnBot == world.bots[loop.b]

\* the square of the distance of the bot bot to the i-th food of the world
FoodDistance2(i, bot) ==
    SquaredDistance(world.food[i].x, world.food[i].y, bot.x, bot.y)

\* C15: in its turn a bot's target becomes a food that is nearest to the bot
\* among the foods of the world, and of several nearest foods the first in the
\* iteration order of the world's food dict.
C15_NearestFirst ==
    [][InTurn =>
          \E k \in 1..Len(world.food) :
              /\ botObj'[TurnBot].target = world.food[k].id
              /\ \A i \in 1..Len(world.food) :
                    /\ FoodDistance2(k, botObj[TurnBot]) <= FoodDistance2(i, botObj[TurnBot])
                    /\ i < k => FoodDistance2(k, botObj[TurnBot])
                                   < FoodDistance2(i, botObj[TurnBot])]_vars

\* a bot has moved towards the first of two foods that lie at the same place
C15_Witness ==
    /\ hist.step.act = "move"
    /\ Len(world.food) >= 2
    /\ world.food[1].x = world.food[2].x
    /\ world.food[1].y = world.food[2].y
    /\ botObj[hist.step.bot].target = world.food[1].id

\* the turn of TurnBot was a capture: score + 1, the bot where it was, the
\* target food gone, one food new, the other foods as they were
TurnCaptured ==
    LET bot == botObj[TurnBot]
        after == botObj'[TurnBot]
        before == Range(world.food)
        now == Range(world'.food)
    IN  /\ after = [bot EXCEPT !.target = after.target, !.score = bot.score + 1]
        /\ Cardinality(before \ now) = 1
        /\ \A f \in before \ now : f.id = after.target
        /\ Cardinality(now \ before) = 1
        /\ \A f \in now \ before : f.id \notin {g.id : g \in before}

\* the turn of TurnBot was a move: of the bot's fields only the position and
\* the movement delta may differ (the target is what the scan made it), the
\* score and the food are as they were
TurnMoved ==
    LET bot == botObj[TurnBot]
        after == botObj'[TurnBot]
    IN  /\ [after EXCEPT !.x = bot.x, !.y = bot.y, !.dx = bot.dx, !.dy = bot.dy]
              = [bot EXCEPT !.target = after.target]
        /\ after.score = bot.score
        /\ world' = world
        /\ FOOD_COUNTER' = FOOD_COUNTER

\* C16: in a frame every bot's turn is exactly one of a capture and a move.
\* A capture adds exactly 1 to the bot's score, replaces exactly the target
\* food and leaves the bot where it is; a move changes only the bot's position
\* and movement delta, not its score and not the food.  Neither changes
\* another bot.
C16_CaptureOrMove ==
    [][InTurn =>
          /\ DOMAIN botObj' = DOMAIN botObj
          /\ \A o \in DOMAIN botObj \ {TurnBot} : botObj'[o] = botObj[o]
          /\ world'.bots = world.bots
          /\ TurnCaptured \/ TurnMoved
          /\ ~(TurnCaptured /\ TurnMoved)
          /\ hist'.step.act = "capture" <=> TurnCaptured
          /\ hist'.step.act = "move" <=> TurnMoved]_vars

\* in one world a bot has captured food and a later bot has moved and has
\* changed its position
C16_Witness ==
    /\ hist.step.act = "move"
    /\ hist.replaced > 0
    /\ \E b \in Range(world.bots) : b # hist.step.bot /\ botObj[b].score > 0
    /\ botObj[hist.step.bot].dx # 0 \/ botObj[hist.step.bot].dy # 0

\* C17: MIN_DISTANCE_TO_CAPTURE is positive and whenever a bot moves, the
\* distance that Bot.update divides by is at least MIN_DISTANCE_TO_CAPTURE,
\* so not 0, and the bot's target is a food of the world.
C17_DivisorPositive ==
    /\ MIN_DISTANCE_TO_CAPTURE > 0
    /\ hist.step.act = "move" =>
          /\ sqrt(hist.step.dist2) >= MIN_DISTANCE_TO_CAPTURE * Scale
          /\ sqrt(hist.step.dist2) > 0
          /\ botObj[hist.step.bot].target \in FoodIds

\* a bot at the smallest distance at which bots move has moved by a step
\* that is not zero
C17_Witness ==
    /\ hist.step.act = "move"
    /\ sqrt(hist.step.dist2) = MIN_DISTANCE_TO_CAPTURE * Scale
    /\ botObj[hist.step.bot].dx # 0 \/ botObj[hist.step.bot].dy # 0

\* C18: for every offspring parent_b is redrawn only while it equals parent_a
\* and at most POPULATION times (every redraw adds 1 to x and x never exceeds
\* POPULATION, so the loop ends); the parents are equal at the crossover only
\* after POPULATION redraws.  train returns after exactly TRAINING_EPOCH
\* generations, whatever the redraw counter x was.
C18_RedrawBounded ==
    [][/\ (pc = "redraw" /\ pc' = "redraw") =>
             /\ loop.parent_a = loop.parent_b
             /\ loop.x < POPULATION
             /\ loop'.x = loop.x + 1
             /\ loop'.parent_a = loop.parent_a
       /\ pc' = "redraw" => loop'.x <= POPULATION
       /\ (pc = "redraw" /\ pc' # "redraw") =>
             (loop.parent_a = loop.parent_b => loop.x = POPULATION)
       /\ loop'.gen <= TRAINING_EPOCH
       /\ loop'.gen \in {loop.gen, loop.gen + 1}
       /\ pc' = "trained" => loop'.gen = TRAINING_EPOCH]_vars

\* after POPULATION redraws parent_b is still parent_a
C18_Witness ==
    /\ pc = "redraw"
    /\ loop.parent_a = loop.parent_b
    /\ loop.x = POPULATION

\* C19: in every population, the initial one included, no two bots hold the
\* same NeuralNetwork object.
C19_OwnNetwork ==
    \A a \in Range(evo.bots), b \in Range(evo.bots) :
        a # b => botObj[a].nn # botObj[b].nn

\* C20: in the world of a generation a food is captured by at most one bot:
\* a captured food is no longer in the world when the next bot scans, and the
\* sum of the bots' scores is the number of foods replaced in that world.
C20_CapturedOnce ==
    (world.made /\ loop.mode = "train") =>
        /\ SumSeq(Scores(world.bots)) = hist.replaced
        /\ hist.step.act = "capture" =>
              botObj[hist.step.bot].target \notin FoodIds

\* every bot of a generation has captured a food in one frame
C20_Witness ==
    /\ world.made /\ loop.mode = "train"
    /\ hist.step.act = "capture"
    /\ hist.replaced = POPULATION
    /\ \A i \in 1..Len(world.bots) : botObj[world.bots[i]].score = 1

====
